---- MODULE Spec2Model ----
(***************************************************************************)
(* Folder-size cache of the S3 gateway (src/MinIO.py, src/main.py).        *)
(*                                                                         *)
(* Object keys and folder prefixes are sequences of one-character strings, *)
(* so that str.replace, slicing and the delimiter listing are computed     *)
(* character by character, as Python and the object store compute them.    *)
(***************************************************************************)
EXTENDS Integers, Sequences, FiniteSets, TLC

\* ------------------------------------------------------------------ bounds
\* Object sizes are drawn from 1..MaxSize.
MaxSize == 2
\* Number of store mutations (puts and deletes) in one behaviour.
MaxChanges == 2
\* The wall clock advances at most MaxTicks times, by TickStep seconds.
MaxTicks == 1
\* Gateway processes that may share one bucket and one snapshot file.
NumProcs == 2

\* The staleness threshold of load_cache, in seconds.
StaleAfter == 900

Procs == 1..NumProcs
\* One tick takes a snapshot from fresh to stale.
TickStep == StaleAfter + 1

\* The keys an object may be stored under: a root file, nested folders, and a
\* sub-folder whose name repeats its parent's ("a/a/").
KeyUniverse ==
  { <<"x">>,
    <<"a", "/", "x">>,
    <<"a", "/", "b", "/", "x">>,
    <<"a", "/", "a", "/", "x">>,
    <<"b", "/", "x">> }

Root == << >>
Slash == "/"
EmptyMap == << >>

\* ----------------------------------------------------------------- strings
\* s.startswith(pre)
StartsWith(s, pre) ==
  /\ Len(pre) <= Len(s)
  /\ SubSeq(s, 1, Len(pre)) = pre

\* s[:-1]
DropLast(s) == IF Len(s) = 0 THEN << >> ELSE SubSeq(s, 1, Len(s) - 1)

\* s[n:]
DropFirst(s, n) == SubSeq(s, n + 1, Len(s))

\* s.replace(old, ''): every non-overlapping occurrence of old, scanning from
\* the left, is removed; an empty old leaves s as it is.
RECURSIVE Replace(_, _)
Replace(s, old) ==
  IF old = << >> \/ s = << >> THEN s
  ELSE IF StartsWith(s, old) THEN Replace(DropFirst(s, Len(old)), old)
  ELSE <<Head(s)>> \o Replace(Tail(s), old)

\* Code points, for the store's binary key order.
Ord(c) == CASE c = "/" -> 47 [] c = "a" -> 97 [] c = "b" -> 98 [] OTHER -> 120

RECURSIVE LexLess(_, _)
LexLess(s, t) ==
  IF t = << >> THEN FALSE
  ELSE IF s = << >> THEN TRUE
  ELSE IF Head(s) = Head(t) THEN LexLess(Tail(s), Tail(t))
  ELSE Ord(Head(s)) < Ord(Head(t))

RECURSIVE Sorted(_)
Sorted(S) ==
  IF S = {} THEN << >>
  ELSE LET m == CHOOSE x \in S : \A y \in S \ {x} : LexLess(x, y)
       IN <<m>> \o Sorted(S \ {m})

\* --------------------------------------------------------------- the store
\* A store is a function from the keys of its objects to their sizes.
Keys(st) == DOMAIN st

\* Position of the first delimiter in s, 0 when there is none.
FirstSlash(s) ==
  IF \E i \in 1..Len(s) : s[i] = Slash
  THEN CHOOSE i \in 1..Len(s) : s[i] = Slash /\ \A j \in 1..(i - 1) : s[j] # Slash
  ELSE 0

\* list_objects_v2(Bucket, Prefix=prefix, Delimiter='/'): the keys under prefix
\* with no further delimiter are Contents; the others are grouped by their
\* text up to and including the next delimiter into CommonPrefixes.
list_objects_v2(st, prefix) ==
  LET under == {k \in Keys(st) : StartsWith(k, prefix)}
      rest(k) == DropFirst(k, Len(prefix))
  IN [ CommonPrefixes |->
         { prefix \o SubSeq(rest(k), 1, FirstSlash(rest(k))) :
             k \in {u \in under : FirstSlash(rest(u)) # 0} },
       Contents |-> {k \in under : FirstSlash(rest(k)) = 0} ]

\* The folder prefixes of a set of keys: every '/'-terminated proper prefix.
FolderPrefixesOf(ks) ==
  UNION {{SubSeq(k, 1, i) : i \in {j \in 1..Len(k) : k[j] = Slash}} : k \in ks}

FolderPrefixes(st) == FolderPrefixesOf(Keys(st))

RECURSIVE SumSizes(_, _)
SumSizes(st, ks) ==
  IF ks = {} THEN 0
  ELSE LET k == CHOOSE k \in ks : TRUE
       IN st[k] + SumSizes(st, ks \ {k})

\* ------------------------------------------------------ the recursive walk
\* The state threaded through one refresh: ok is FALSE once a listing call has
\* raised, cache is the dict being filled, calls the prefixes listed so far
\* (in order), ret the value returned by the call just finished.
\* failAt is the ordinal of the listing call that raises (0: none does).

\* dict assignment cache[key] = value
SetKey(m, key, value) ==
  [k \in DOMAIN m \cup {key} |-> IF k = key THEN value ELSE m[k]]

RECURSIVE calculate_folder_size(_, _, _, _)
RECURSIVE walk_subfolders(_, _, _, _, _)

\* The loop of lines 72-74: folder_name is the listed Prefix with every
\* occurrence of the parent prefix removed and its last character dropped.
walk_subfolders(st, failAt, prefix, folders, w) ==
  IF folders = << >> \/ ~w.ok THEN w
  ELSE LET folder_name == DropLast(Replace(Head(folders), prefix))
           sub == calculate_folder_size(st, failAt,
                                        prefix \o folder_name \o <<Slash>>, w)
       IN walk_subfolders(st, failAt, prefix, Tail(folders),
                          [sub EXCEPT !.ret = w.ret + sub.ret])

calculate_folder_size(st, failAt, prefix, w) ==
  LET listed == [w EXCEPT !.calls = Append(@, prefix)]
  IN IF Len(listed.calls) = failAt
     THEN [listed EXCEPT !.ok = FALSE, !.ret = 0]
     ELSE LET objs == list_objects_v2(st, prefix)
              sub == walk_subfolders(st, failAt, prefix,
                                     Sorted(objs.CommonPrefixes),
                                     [listed EXCEPT !.ret = 0])
              total_size == sub.ret + SumSizes(st, objs.Contents)
          IN IF ~sub.ok THEN sub
             ELSE [sub EXCEPT !.cache = SetKey(@, prefix, total_size),
                              !.ret = total_size]

\* The loop of lines 279-281 of refresh_cache.
RECURSIVE refresh_folders(_, _, _, _)
refresh_folders(st, failAt, folders, w) ==
  IF folders = << >> \/ ~w.ok THEN w
  ELSE LET folder_name == Head(folders)
           sub == calculate_folder_size(st, failAt, folder_name, w)
       IN refresh_folders(st, failAt, Tail(folders),
            IF sub.ok
            THEN [sub EXCEPT !.cache = SetKey(@, folder_name, sub.ret)]
            ELSE sub)

\* Lines 274-281 of refresh_cache: the root listing and the walk, started on
\* the dict handed in by load_cache.
refresh_walk(st, failAt, entries) ==
  LET listed == [ok |-> TRUE, cache |-> entries, calls |-> <<Root>>, ret |-> 0]
  IN IF failAt = 1
     THEN [listed EXCEPT !.ok = FALSE]
     ELSE refresh_folders(st, failAt,
                          Sorted(list_objects_v2(st, Root).CommonPrefixes),
                          listed)

\* ------------------------------------------------------- the snapshot file
\* The file "<bucket>.json": absent, incomplete (opened for writing and not yet
\* closed: empty or cut short, not a JSON document), complete (one dump, closed)
\* or garbled (a shorter dump written over a longer one).  len is the length of
\* the text in the file.
\* A dict with no 'time' key.
NoTime == 0 - 1
NoFile == [state |-> "absent", entries |-> EmptyMap, time |-> NoTime, len |-> 0]
Truncated == [state |-> "incomplete", entries |-> EmptyMap, time |-> NoTime, len |-> 0]

RECURSIVE Digits(_)
Digits(n) == IF n < 10 THEN 1 ELSE 1 + Digits(n \div 10)

\* Length of what json.dump(cache, indent=2) writes for the folder entries:
\* one line per entry, two spaces, the quoted key, ": ", the number, ",\n".
\* The braces and the "time" line are the same for every snapshot.
RECURSIVE JsonLen(_)
JsonLen(entries) ==
  IF DOMAIN entries = {} THEN 0
  ELSE LET k == CHOOSE k \in DOMAIN entries : TRUE
       IN Len(k) + Digits(entries[k]) + 8
          + JsonLen([j \in DOMAIN entries \ {k} |-> entries[j]])

\* Line 98 of load_cache: the test that sends a loaded snapshot to refresh_cache.
needs_refresh(snapshot_time, time_now) == snapshot_time < time_now + StaleAfter

\* ------------------------------------------------------------------- state
VARIABLES
  instances,\* how many gateway processes are deployed on this bucket
  store,    \* the bucket: key -> size
  changes,  \* store mutations so far
  now,      \* the wall clock, time()
  file,     \* the snapshot file
  pc,       \* per process: where it is in its life
  cache,    \* per process: the dict load_cache is building, then self.cache
  snap,     \* per process: what load_cache found on disk, and how old it was
  walk,     \* per process: the store its refresh walked and the listings made
  fault,    \* per process: the exception that ended it
  resp      \* the last request's outcome, as the HTTP handler saw it

vars == <<instances, store, changes, now, file, pc, cache, snap, walk, fault, resp>>

NoCache == [entries |-> EmptyMap, time |-> NoTime]
NoSnap == [found |-> FALSE, valid |-> FALSE, entries |-> EmptyMap, age |-> 0]
NoWalk == [done |-> FALSE, store |-> EmptyMap, calls |-> << >>, failAt |-> 0]
NoResp == [op |-> "none", outcome |-> "ok", raised |-> FALSE, ret |-> << >>,
           folders |-> EmptyMap, http |-> "none"]

Deployed == 1..instances

Init ==
  /\ instances = 1
  /\ store = EmptyMap
  /\ changes = 0
  /\ now = 0
  /\ file = NoFile
  /\ pc = [p \in Procs |-> "down"]
  /\ cache = [p \in Procs |-> NoCache]
  /\ snap = [p \in Procs |-> NoSnap]
  /\ walk = [p \in Procs |-> NoWalk]
  /\ fault = [p \in Procs |-> "none"]
  /\ resp = NoResp

\* ------------------------------------------------------------- environment
\* Other clients of the bucket write and remove objects.
StorePut(st, key, size) == SetKey(st, key, size)
StoreDelete(st, key) == [k \in DOMAIN st \ {key} |-> st[k]]

store_changes ==
  /\ changes < MaxChanges
  /\ \/ \E key \in KeyUniverse, size \in 1..MaxSize :
          /\ IF key \in DOMAIN store THEN store[key] # size ELSE TRUE
          /\ store' = StorePut(store, key, size)
     \/ \E key \in DOMAIN store : store' = StoreDelete(store, key)
  /\ changes' = changes + 1
  /\ UNCHANGED <<instances, now, file, pc, cache, snap, walk, fault, resp>>

tick ==
  /\ now < MaxTicks * TickStep
  /\ now' = now + TickStep
  /\ UNCHANGED <<instances, store, changes, file, pc, cache, snap, walk, fault, resp>>

\* ----------------------------------------------------------------- startup
\* MinIO.__init__ -> load_cache, up to the decision of lines 94-102: the file is
\* looked for, parsed, and its 'time' compared with the clock.
load_cache(p) ==
  /\ pc[p] = "down"
  /\ UNCHANGED walk
  /\ IF file.state = "absent"
     THEN /\ cache' = [cache EXCEPT ![p] = NoCache]
          /\ snap' = [snap EXCEPT ![p] = NoSnap]
          /\ pc' = [pc EXCEPT ![p] = "refreshing"]
          /\ fault' = [fault EXCEPT ![p] = "none"]
     ELSE IF file.state # "complete"
     THEN \* json.load raises; nothing catches it
          /\ cache' = [cache EXCEPT ![p] = NoCache]
          /\ snap' = [snap EXCEPT ![p] = [NoSnap EXCEPT !.found = TRUE]]
          /\ pc' = [pc EXCEPT ![p] = "crashed"]
          /\ fault' = [fault EXCEPT ![p] = "JSONDecodeError"]
     ELSE /\ cache' = [cache EXCEPT ![p] = [entries |-> file.entries, time |-> file.time]]
          /\ snap' = [snap EXCEPT ![p] = [found |-> TRUE, valid |-> TRUE,
                                          entries |-> file.entries,
                                          age |-> now - file.time]]
          /\ pc' = [pc EXCEPT ![p] =
                      IF needs_refresh(file.time, now) THEN "refreshing" ELSE "serving"]
          /\ fault' = [fault EXCEPT ![p] = "none"]
  /\ UNCHANGED <<instances, store, changes, now, file, resp>>

\* refresh_cache as it would be with the file opened before the listings.
refresh_cache_walk_opens_first(p) ==
  /\ pc[p] = "refreshing"
  /\ \E failAt \in 0..Len(refresh_walk(store, 0, cache[p].entries).calls) :
       LET w == refresh_walk(store, failAt, cache[p].entries)
       IN /\ walk' = [walk EXCEPT ![p] =
                      IF w.ok
                      THEN [done |-> TRUE, store |-> store, calls |-> w.calls,
                            failAt |-> 0]
                      ELSE [NoWalk EXCEPT !.failAt = failAt]]
          /\ cache' = [cache EXCEPT ![p] =
                       IF w.ok THEN [@ EXCEPT !.entries = w.cache] ELSE NoCache]
          /\ pc' = [pc EXCEPT ![p] = IF w.ok THEN "walked" ELSE "crashed"]
          /\ fault' = [fault EXCEPT ![p] = IF w.ok THEN "none" ELSE "ListingError"]
  /\ file' = Truncated
  /\ UNCHANGED <<instances, store, changes, now, snap, resp>>

\* refresh_cache, lines 274-281: the listings.  A listing call that raises ends
\* refresh_cache, load_cache and the constructor.
refresh_cache_walk(p) ==
  /\ pc[p] = "refreshing"
  /\ \E failAt \in 0..Len(refresh_walk(store, 0, cache[p].entries).calls) :
       LET w == refresh_walk(store, failAt, cache[p].entries)
       IN /\ walk' = [walk EXCEPT ![p] =
                      IF w.ok
                      THEN [done |-> TRUE, store |-> store, calls |-> w.calls,
                            failAt |-> 0]
                      ELSE [NoWalk EXCEPT !.failAt = failAt]]
          \* the dict of a constructor that raised is dropped with it
          /\ cache' = [cache EXCEPT ![p] =
                       IF w.ok THEN [@ EXCEPT !.entries = w.cache] ELSE NoCache]
          /\ pc' = [pc EXCEPT ![p] = IF w.ok THEN "walked" ELSE "crashed"]
          /\ fault' = [fault EXCEPT ![p] = IF w.ok THEN "none" ELSE "ListingError"]
  /\ UNCHANGED <<instances, store, changes, now, file, snap, resp>>

\* refresh_cache, lines 284-285: open('w') creates the file or cuts it to nothing.
refresh_cache_open(p) ==
  /\ pc[p] = "walked"
  /\ file' = Truncated
  /\ pc' = [pc EXCEPT ![p] = "opened"]
  /\ snap' = [snap EXCEPT ![p] = NoSnap]
  /\ walk' = [walk EXCEPT ![p] = NoWalk]
  /\ UNCHANGED <<instances, store, changes, now, cache, fault, resp>>

\* What the file holds after this writer's text, written from offset 0, lands on
\* what the file holds now.
Written(f, entries, time) ==
  IF f.len > JsonLen(entries)
  THEN [state |-> "garbled", entries |-> EmptyMap, time |-> NoTime, len |-> f.len]
  ELSE [state |-> "complete", entries |-> entries, time |-> time,
        len |-> JsonLen(entries)]

\* refresh_cache, lines 286-288: the time stamp, json.dump, close, return.
refresh_cache_dump(p) ==
  /\ pc[p] = "opened"
  /\ cache' = [cache EXCEPT ![p].time = now]
  /\ file' = Written(file, cache[p].entries, now)
  /\ pc' = [pc EXCEPT ![p] = "serving"]
  /\ UNCHANGED <<instances, store, changes, now, snap, walk, fault, resp>>

\* The process ends (it is stopped, killed or restarted), wherever it is.
stop(p) ==
  /\ pc[p] # "down"
  /\ pc' = [pc EXCEPT ![p] = "down"]
  /\ cache' = [cache EXCEPT ![p] = NoCache]
  /\ snap' = [snap EXCEPT ![p] = NoSnap]
  /\ walk' = [walk EXCEPT ![p] = NoWalk]
  /\ fault' = [fault EXCEPT ![p] = "none"]
  /\ UNCHANGED <<instances, store, changes, now, file, resp>>

\* ---------------------------------------------------------------- requests
\* What the object store does with one call: it answers, it raises (network,
\* credentials, missing key), or it answers with an unexpected status code.
\* A value returned by a MinIO method is the sequence of what it unpacks to;
\* "None" is Python's None.
Returned(value) == [raised |-> FALSE, value |-> value]
Raised == [raised |-> TRUE, value |-> << >>]

\* self.cache.get(key, 0)
CacheGet(entries, key) == IF key \in DOMAIN entries THEN entries[key] ELSE 0

\* get_bucket_objects, lines 151-189: the folders of the response carry the
\* cached size of their Prefix.
get_bucket_objects_folders(entries, st, prefix) ==
  [f \in list_objects_v2(st, prefix).CommonPrefixes |-> CacheGet(entries, f)]

get_bucket_objects_ret(outcome) ==
  IF outcome = "ok" THEN Returned(<<"response", "None">>)
  ELSE Returned(<<"None", "error">>)

\* get_object, lines 198-201: no try around the store call.
get_object_ret(outcome) ==
  IF outcome = "ok" THEN Returned(<<"file_name", "file_content">>) ELSE Raised

\* get_object_info, lines 210-224
get_object_info_ret(outcome) ==
  IF outcome = "ok" THEN Returned(<<"object_details", "None">>)
  ELSE Returned(<<"None", "error">>)

\* delete_object, lines 233-245
delete_object_ret(outcome) ==
  CASE outcome = "ok" -> Returned(<<"deleted", "None">>)
    [] outcome = "non_success" -> Returned(<<"failed", "None">>)
    [] OTHER -> Returned(<<"None", "error">>)

\* put_object, lines 255-265: the non-200 return is a dict with the one key
\* 'message', not a pair.
put_object_ret(outcome) ==
  CASE outcome = "ok" -> Returned(<<"added", "None">>)
    [] outcome = "non_success" -> Returned(<<"message">>)
    [] OTHER -> Returned(<<"None", "error">>)

\* main.py, the handlers that unpack "result, err" (lines 37-43, 48-54, 73-79,
\* 85-91): an exception or a failed unpacking leaves the handler unhandled.
pair_handler(ret) ==
  IF ret.raised \/ Len(ret.value) # 2 THEN "unhandled"
  ELSE IF ret.value[1] # "None" THEN "200" ELSE "500"

\* main.py, get_object_handler (lines 57-68)
get_object_handler(ret) ==
  IF ret.raised \/ Len(ret.value) # 2 THEN "unhandled" ELSE "200"

Answer(op, outcome, ret, folders, http) ==
  [op |-> op, outcome |-> outcome, raised |-> ret.raised, ret |-> ret.value,
   folders |-> folders, http |-> http]

\* The prefixes a client may ask a listing of.
ListPrefixes == {Root} \cup FolderPrefixesOf(KeyUniverse)

\* get_bucket_objects as it would be with self.cache.setdefault(Prefix, 0).
get_bucket_objects_setdefault(p) ==
  /\ pc[p] = "serving"
  /\ \E prefix \in ListPrefixes, outcome \in {"ok", "error"} :
       LET folders == IF outcome = "ok"
                      THEN get_bucket_objects_folders(cache[p].entries, store, prefix)
                      ELSE EmptyMap
       IN /\ resp' = Answer("get_bucket_objects", outcome,
                            get_bucket_objects_ret(outcome), folders,
                            pair_handler(get_bucket_objects_ret(outcome)))
          /\ cache' = [cache EXCEPT ![p].entries =
                       [f \in DOMAIN @ \cup DOMAIN folders |->
                          IF f \in DOMAIN @ THEN @[f] ELSE 0]]
  /\ UNCHANGED <<instances, store, changes, now, file, pc, snap, walk, fault>>

get_bucket_objects(p) ==
  /\ pc[p] = "serving"
  /\ \E prefix \in ListPrefixes, outcome \in {"ok", "error"} :
       resp' = Answer("get_bucket_objects", outcome, get_bucket_objects_ret(outcome),
                      IF outcome = "ok"
                      THEN get_bucket_objects_folders(cache[p].entries, store, prefix)
                      ELSE EmptyMap,
                      pair_handler(get_bucket_objects_ret(outcome)))
  /\ UNCHANGED <<instances, store, changes, now, file, pc, cache, snap, walk, fault>>

get_object_info(p) ==
  /\ pc[p] = "serving"
  /\ \E key \in KeyUniverse, outcome \in {"ok", "error"} :
       /\ key \notin DOMAIN store => outcome = "error"
       /\ resp' = Answer("get_object_info", outcome, get_object_info_ret(outcome),
                         EmptyMap, pair_handler(get_object_info_ret(outcome)))
  /\ UNCHANGED <<instances, store, changes, now, file, pc, cache, snap, walk, fault>>

get_object(p) ==
  /\ pc[p] = "serving"
  /\ \E key \in KeyUniverse, outcome \in {"ok", "error"} :
       /\ key \notin DOMAIN store => outcome = "error"
       /\ resp' = Answer("get_object", outcome, get_object_ret(outcome),
                         EmptyMap, get_object_handler(get_object_ret(outcome)))
  /\ UNCHANGED <<instances, store, changes, now, file, pc, cache, snap, walk, fault>>

delete_object(p) ==
  /\ pc[p] = "serving"
  /\ changes < MaxChanges
  /\ \E key \in KeyUniverse, outcome \in {"ok", "non_success", "error"} :
       /\ store' = IF outcome = "ok" THEN StoreDelete(store, key) ELSE store
       /\ resp' = Answer("delete_object", outcome, delete_object_ret(outcome),
                         EmptyMap, pair_handler(delete_object_ret(outcome)))
  /\ changes' = changes + 1
  /\ UNCHANGED <<instances, now, file, pc, cache, snap, walk, fault>>

put_object(p) ==
  /\ pc[p] = "serving"
  /\ changes < MaxChanges
  /\ \E key \in KeyUniverse, size \in 1..MaxSize,
        outcome \in {"ok", "non_success", "error"} :
       /\ store' = IF outcome = "ok" THEN StorePut(store, key, size) ELSE store
       /\ resp' = Answer("put_object", outcome, put_object_ret(outcome),
                         EmptyMap, pair_handler(put_object_ret(outcome)))
  /\ changes' = changes + 1
  /\ UNCHANGED <<instances, now, file, pc, cache, snap, walk, fault>>

Request(p) ==
  \/ get_bucket_objects(p)
  \/ get_object_info(p)
  \/ get_object(p)
  \/ delete_object(p)
  \/ put_object(p)

Startup(p) ==
  \/ load_cache(p)
  \/ refresh_cache_walk(p)
  \/ refresh_cache_open(p)
  \/ refresh_cache_dump(p)

\* One gateway process on the bucket; other clients change the store.
Next ==
  \/ store_changes
  \/ tick
  \/ \E p \in Deployed : load_cache(p)
  \/ \E p \in Deployed : refresh_cache_walk(p)
  \/ \E p \in Deployed : refresh_cache_open(p)
  \/ \E p \in Deployed : refresh_cache_dump(p)
  \/ \E p \in Deployed : stop(p)

Spec == Init /\ [][Next]_vars

\* The gateway serving requests; the store changes through its own handlers.
NextServe ==
  \/ \E p \in Deployed : load_cache(p)
  \/ \E p \in Deployed : refresh_cache_walk(p)
  \/ \E p \in Deployed : refresh_cache_open(p)
  \/ \E p \in Deployed : refresh_cache_dump(p)
  \/ \E p \in Deployed : get_bucket_objects(p)
  \/ \E p \in Deployed : get_object_info(p)
  \/ \E p \in Deployed : get_object(p)
  \/ \E p \in Deployed : delete_object(p)
  \/ \E p \in Deployed : put_object(p)
  \/ \E p \in Deployed : stop(p)

SpecServe == Init /\ [][NextServe]_vars

\* Several gateway processes started on the same bucket and snapshot file.
InitRace ==
  /\ instances = NumProcs
  /\ store = EmptyMap
  /\ changes = 0
  /\ now = 0
  /\ file = NoFile
  /\ pc = [p \in Procs |-> "down"]
  /\ cache = [p \in Procs |-> NoCache]
  /\ snap = [p \in Procs |-> NoSnap]
  /\ walk = [p \in Procs |-> NoWalk]
  /\ fault = [p \in Procs |-> "none"]
  /\ resp = NoResp

NextRace ==
  \/ store_changes
  \/ \E p \in Deployed : load_cache(p)
  \/ \E p \in Deployed : refresh_cache_walk(p)
  \/ \E p \in Deployed : refresh_cache_open(p)
  \/ \E p \in Deployed : refresh_cache_dump(p)
  \/ \E p \in Deployed : stop(p)

SpecRace == InitRace /\ [][NextRace]_vars

\* ------------------------------------------------------------------ claims
\* The sum of the sizes of all objects of st whose key starts with prefix.
SizeUnder(st, prefix) == SumSizes(st, {k \in Keys(st) : StartsWith(k, prefix)})

FreshWalk == [ok |-> TRUE, cache |-> EmptyMap, calls |-> << >>, ret |-> 0]

\* C1: for the store a refresh has just walked and every folder prefix P of it,
\* calculate_folder_size(P, cache) returns the sum of the sizes of all objects
\* whose key starts with P, at any depth, also when a sub-folder repeats the
\* text of its parent prefix.
C1_FolderSizeIsRecursiveSum ==
  \A p \in Procs : walk[p].done =>
    \A P \in FolderPrefixes(walk[p].store) :
      calculate_folder_size(walk[p].store, 0, P, FreshWalk).ret
        = SizeUnder(walk[p].store, P)

\* C2: when load_cache has read a snapshot, it goes on to refresh_cache if and
\* only if the snapshot is more than 900 seconds old; a younger snapshot is
\* returned as it is (the process is serving, with no listing and no write).
C2_RefreshIffStale ==
  \A p \in Procs : snap[p].valid =>
    ((pc[p] = "serving") <=> (snap[p].age <= StaleAfter))

\* C3: after the listings of a refresh, a key loaded from the previous snapshot
\* whose folder is no longer in the store is not in the cache that refresh_cache
\* returns and persists.
C3_RefreshDropsDeletedFolders ==
  \A p \in Procs : (walk[p].done /\ snap[p].valid) =>
    \A k \in DOMAIN snap[p].entries :
      (k \in ListPrefixes /\ k \notin FolderPrefixes(walk[p].store))
        => k \notin DOMAIN cache[p].entries

\* C4: every failure or non-success answer of the store reaches the HTTP
\* handler as the pair (None, error) and becomes a 500; nothing is raised into
\* the handler and every return value unpacks to two elements.
C4_FailuresAreErrorPairs ==
  resp.op # "none" =>
    /\ ~resp.raised
    /\ Len(resp.ret) = 2
    /\ resp.outcome # "ok" =>
         (resp.ret[1] = "None" /\ resp.ret[2] # "None" /\ resp.http = "500")

\* C5: load_cache never fails because of the snapshot file: no process is ended
\* by the exception of parsing it.
C5_LoadSurvivesBadSnapshot ==
  \A p \in Procs : fault[p] # "JSONDecodeError"

\* C6: a listing call that raises during refresh_cache, at the root or deeper,
\* ends the refresh and leaves the snapshot file exactly as it was: none is
\* created, and an existing one keeps its entries and time.
C6_FailedRefreshLeavesFile ==
  [][\A p \in Procs :
       (pc[p] = "refreshing" /\ fault'[p] = "ListingError")
         => (file' = file /\ pc'[p] = "crashed")]_vars

\* A refresh has failed on a listing below the root while a complete snapshot
\* with entries was on disk.
C6_Witness ==
  \E p \in Procs :
    /\ pc[p] = "crashed" /\ fault[p] = "ListingError" /\ walk[p].failAt > 1
    /\ file.state = "complete" /\ DOMAIN file.entries # {}

\* C7: after a successful refresh that started from an empty cache, every
\* folder prefix of the store, at any depth, is a key of the cache, and its
\* value is the sum of the sizes of the objects under it.
C7_RefreshCachesEveryFolder ==
  \A p \in Procs : (walk[p].done /\ ~snap[p].found) =>
    \A F \in FolderPrefixes(walk[p].store) :
      /\ F \in DOMAIN cache[p].entries
      /\ cache[p].entries[F] = SizeUnder(walk[p].store, F)

\* C8: once a process is serving, no step it takes (any request, any number of
\* times) changes its in-memory cache or the snapshot file.
C8_ServingLeavesCacheAndFile ==
  [][\A p \in Procs : pc[p] = "serving" =>
       /\ pc'[p] = "serving" => cache'[p] = cache[p]
       /\ file' = file]_vars

\* A serving process has stored an object in a folder its cache does not know.
C8_Witness ==
  \E p \in Procs :
    /\ pc[p] = "serving" /\ resp.op = "put_object" /\ resp.outcome = "ok"
    /\ ~(FolderPrefixes(store) \subseteq DOMAIN cache[p].entries)

\* C9: one refresh lists the root and every folder prefix of the store exactly
\* once each, and lists nothing else.
C9_OneListingPerPrefix ==
  \A p \in Procs : walk[p].done =>
    /\ \A i, j \in 1..Len(walk[p].calls) : walk[p].calls[i] = walk[p].calls[j] => i = j
    /\ {walk[p].calls[i] : i \in 1..Len(walk[p].calls)}
         = {Root} \cup FolderPrefixes(walk[p].store)

\* C10: a load_cache that finds the snapshot file while another process is
\* between opening it for writing and closing it reads a complete snapshot.
C10_LoadSeesCompleteSnapshot ==
  [][\A p \in Procs :
       (pc[p] = "down" /\ pc'[p] # "down" /\ file.state # "absent"
          /\ \E q \in Procs \ {p} : pc[q] = "opened")
         => snap'[p].valid]_vars
====
